---- MODULE Spec2Model ----
(***************************************************************************)
(* Model of georeference.py: world-file parsing (parse_jpw), the affine    *)
(* pixel-to-grid mapping (pixel_to_geo), the optional rotation of a pixel  *)
(* about a center (pixel_to_geo_with_transform), the grid-to-geographic    *)
(* conversion (bng_to_latlon) and the batch loop (process_directory).      *)
(*                                                                         *)
(* Numbers.  The program computes in IEEE doubles.  The model computes     *)
(* exactly, over values that doubles hold exactly: pixel and center        *)
(* coordinates are integers, and world-file parameters and grid            *)
(* coordinates are counted in quarter units (0.25 is 1, 400000 is          *)
(* 1600000).  Rotation angles are whole multiples of 90 degrees, the only  *)
(* whole-degree angles whose sine and cosine are rational; math.cos and    *)
(* math.sin are modelled by their exact values there (the doubles the      *)
(* program gets differ from them by at most 2e-16, e.g.                    *)
(* math.cos(math.radians(90)) is 6.1e-17).                                 *)
(***************************************************************************)
EXTENDS Integers, Sequences, FiniteSets, TLC

VARIABLES
    \* arguments of the call under study
    pixel_x, pixel_y, jpw_params, center, height, width, rotation_angle,
    jpw_file,      \* content of a world file: a sequence of lines
    call,          \* name of the last function called, "none" before any call
    ret,           \* outcome of the last call: a return value or an exception
    translated,    \* local (translated_x, translated_y) of the last call, or None
    lat_lon,       \* local (lat, lon) of the last call, or None
    first,         \* arguments and outcome of the call before the last one, or None
    \* process_directory
    directory,     \* image name -> its sidecar files
    jpeg_files,    \* the list glob.glob returned
    idx,           \* position of the loop in jpeg_files
    outputs,       \* image name -> content of its _georeferenced.json
    stdout,        \* lines printed so far
    pc             \* "idle", "loop", "returned" or "raised"

vars == <<pixel_x, pixel_y, jpw_params, center, height, width, rotation_angle,
          jpw_file, call, ret, translated, lat_lon, first,
          directory, jpeg_files, idx, outputs, stdout, pc>>

callVars == <<pixel_x, pixel_y, jpw_params, center, height, width,
              rotation_angle, jpw_file, call, ret, translated, lat_lon, first>>

dirVars == <<directory, jpeg_files, idx, outputs, stdout, pc>>

\* Python's None.  An optional integer n (height, width) is the one-element
\* tuple <<n>>; optional tuples and files are themselves or None.
None == <<>>

Some(value) == <<value>>

----------------------------------------------------------------------------
(* Bounds *)

MaxCoord == 2     \* pixel and center coordinates range over 0..MaxCoord
MaxExtent == 1    \* height and width range over 0..MaxExtent
MaxTurns == 2     \* rotation angles range over -90*MaxTurns .. 90*MaxTurns
MaxLines == 7     \* a world file has at most MaxLines lines
MaxImages == 2    \* a directory holds at most MaxImages images

----------------------------------------------------------------------------
(* bng_to_latlon *)

\* pyproj's transformer, built with always_xy=True: it yields (lon, lat).
\* The projection itself is a library computation; its two outputs are kept
\* symbolic, each tagged with the axis it is and the grid point it is of.
transformer_transform(x_bng, y_bng) ==
    << [axis |-> "lon", of |-> <<x_bng, y_bng>>],
       [axis |-> "lat", of |-> <<x_bng, y_bng>>] >>

bng_to_latlon_swapped(x_bng, y_bng) ==
    LET t == transformer_transform(x_bng, y_bng)
        lon == t[1]
        lat == t[2]
    IN  <<lon, lat>>

bng_to_latlon(x_bng, y_bng) ==
    LET t == transformer_transform(x_bng, y_bng)
        lon == t[1]
        lat == t[2]
    IN  <<lat, lon>>

----------------------------------------------------------------------------
(* pixel_to_geo *)

pixel_to_geo_rotation_swapped(px, py, params) ==
    LET pixel_size_x == params[1]
        rotation_x   == params[2]
        rotation_y   == params[3]
        pixel_size_y == params[4]
        upper_left_x == params[5]
        upper_left_y == params[6]
        x_geo == (px * pixel_size_x) + (py * rotation_y) + upper_left_x
        y_geo == (py * pixel_size_y) + (px * rotation_x) + upper_left_y
    IN  <<x_geo, y_geo>>

pixel_to_geo(px, py, params) ==
    LET pixel_size_x == params[1]
        rotation_x   == params[2]
        rotation_y   == params[3]
        pixel_size_y == params[4]
        upper_left_x == params[5]
        upper_left_y == params[6]
        x_geo == (px * pixel_size_x) + (py * rotation_x) + upper_left_x
        y_geo == (py * pixel_size_y) + (px * rotation_y) + upper_left_y
    IN  <<x_geo, y_geo>>

----------------------------------------------------------------------------
(* pixel_to_geo_with_transform *)

\* math.cos(math.radians(angle)) and math.sin(math.radians(angle)) at the
\* multiples of 90 degrees.
cos_degrees(angle) ==
    CASE angle % 360 = 0   -> 1
      [] angle % 360 = 90  -> 0
      [] angle % 360 = 180 -> -1
      [] angle % 360 = 270 -> 0

sin_degrees(angle) ==
    CASE angle % 360 = 0   -> 0
      [] angle % 360 = 90  -> 1
      [] angle % 360 = 180 -> 0
      [] angle % 360 = 270 -> -1

\* width = width or height
width_or_height(w, h) == IF w = None \/ w = Some(0) THEN h ELSE w

is_single_pixel_center_only(c, h) == c = None

\* "If no center or height/width, treat as a single pixel"
is_single_pixel(c, h) == c = None \/ h = None

\* Variants of lines 104-115, each with one slip.
translated_pixel_not_put_back(px, py, c, h, w, angle) ==
    LET rel_x == px - c[1]
        rel_y == py - c[2]
        rotated_x == rel_x * cos_degrees(angle) - rel_y * sin_degrees(angle)
        rotated_y == rel_x * sin_degrees(angle) + rel_y * cos_degrees(angle)
    IN  <<rotated_x, rotated_y>>

translated_pixel_sign_slip(px, py, c, h, w, angle) ==
    LET rel_x == px - c[1]
        rel_y == py - c[2]
        rotated_x == rel_x * cos_degrees(angle) + rel_y * sin_degrees(angle)
        rotated_y == rel_x * sin_degrees(angle) + rel_y * cos_degrees(angle)
    IN  <<rotated_x + c[1], rotated_y + c[2]>>

translated_pixel_other_direction(px, py, c, h, w, angle) ==
    LET rel_x == px - c[1]
        rel_y == py - c[2]
        rotated_x == rel_x * cos_degrees(angle) + rel_y * sin_degrees(angle)
        rotated_y == rel_y * cos_degrees(angle) - rel_x * sin_degrees(angle)
    IN  <<rotated_x + c[1], rotated_y + c[2]>>

translated_pixel_box_corner(px, py, c, h, w, angle) ==
    LET rel_x == px - c[1] + width_or_height(w, h)[1]
        rel_y == py - c[2] + h[1]
        rotated_x == rel_x * cos_degrees(angle) - rel_y * sin_degrees(angle)
        rotated_y == rel_x * sin_degrees(angle) + rel_y * cos_degrees(angle)
    IN  <<rotated_x + c[1], rotated_y + c[2]>>

\* Lines 104-115: the pixel relative to the center, rotated, and put back.
translated_pixel(px, py, c, h, w, angle) ==
    LET center_x == c[1]
        center_y == c[2]
        rel_x == px - center_x
        rel_y == py - center_y
        rotated_x == rel_x * cos_degrees(angle) - rel_y * sin_degrees(angle)
        rotated_y == rel_x * sin_degrees(angle) + rel_y * cos_degrees(angle)
        translated_x == rotated_x + center_x
        translated_y == rotated_y + center_y
    IN  <<translated_x, translated_y>>

\* Lines 117-119: the affine mapping of the translated pixel.
geo_of_translated(t, params) ==
    LET pixel_size_x == params[1]
        rotation_x   == params[2]
        rotation_y   == params[3]
        pixel_size_y == params[4]
        upper_left_x == params[5]
        upper_left_y == params[6]
        x_geo == (t[1] * pixel_size_x) + (t[2] * rotation_x) + upper_left_x
        y_geo == (t[2] * pixel_size_y) + (t[1] * rotation_y) + upper_left_y
    IN  <<x_geo, y_geo>>

\* The value the function returns.
pixel_to_geo_with_transform(px, py, params, c, h, w, angle) ==
    IF is_single_pixel(c, h)
    THEN pixel_to_geo(px, py, params)
    ELSE geo_of_translated(translated_pixel(px, py, c, h, w, angle), params)

\* The locals the call leaves behind: translated_x, translated_y and lat, lon
\* (None on the single-pixel path, which computes neither).
locals_translated(px, py, c, h, w, angle) ==
    IF is_single_pixel(c, h) THEN None
    ELSE translated_pixel(px, py, c, h, w, angle)

locals_lat_lon(px, py, params, c, h, w, angle) ==
    IF is_single_pixel(c, h) THEN None
    ELSE LET g == geo_of_translated(translated_pixel(px, py, c, h, w, angle), params)
         IN  bng_to_latlon(g[1], g[2])

----------------------------------------------------------------------------
(* parse_jpw *)

Digits == <<"0", "1", "2", "3", "4", "5", "6", "7", "8", "9">>

is_digit(ch) == \E d \in 1..10 : Digits[d] = ch

digit_value(ch) == (CHOOSE d \in 1..10 : Digits[d] = ch) - 1

is_space(ch) == ch \in {" ", "\n", "\t", "\r"}

RECURSIVE lstrip(_)
lstrip(s) ==
    IF s # <<>> /\ is_space(Head(s)) THEN lstrip(Tail(s)) ELSE s

RECURSIVE rstrip(_)
rstrip(s) ==
    IF s # <<>> /\ is_space(s[Len(s)]) THEN rstrip(SubSeq(s, 1, Len(s) - 1)) ELSE s

\* str.strip()
strip(s) == rstrip(lstrip(s))

RECURSIVE digits_value(_)
digits_value(s) ==
    IF s = <<>> THEN 0
    ELSE 10 * digits_value(SubSeq(s, 1, Len(s) - 1)) + digit_value(s[Len(s)])

RECURSIVE power_of_ten(_)
power_of_ten(k) == IF k = 0 THEN 1 ELSE 10 * power_of_ten(k - 1)

all_digits(s) == \A i \in 1..Len(s) : is_digit(s[i])

ValueError == "ValueError"
IndexError == "IndexError"

\* float(text) for plain decimal literals: an optional sign, digits, and an
\* optional point followed by digits, at least one digit in all.  Anything
\* else over the characters the model draws (digits, sign, point, blanks and
\* the letters a, b, c) raises ValueError; the exponent, inf, nan and
\* underscore forms float also accepts are outside those characters.
float_body(text) ==
    IF text # <<>> /\ Head(text) \in {"-", "+"} THEN Tail(text) ELSE text

float_point(text) ==
    LET body   == float_body(text)
        points == {i \in 1..Len(body) : body[i] = "."}
    IN  IF points = {} THEN Len(body) + 1
        ELSE CHOOSE i \in points : \A j \in points : i <= j

float_raises(text) ==
    LET body     == float_body(text)
        whole    == SubSeq(body, 1, float_point(text) - 1)
        fraction == SubSeq(body, float_point(text) + 1, Len(body))
    IN  ~ (/\ all_digits(whole)
           /\ all_digits(fraction)
           /\ Len(whole) + Len(fraction) > 0)

\* The value of a literal float accepts, counted in quarter units, which is
\* exact for the literals the model draws.
float_of(text) ==
    LET body     == float_body(text)
        whole    == SubSeq(body, 1, float_point(text) - 1)
        fraction == SubSeq(body, float_point(text) + 1, Len(body))
        quarters == (4 * digits_value(whole \o fraction)) \div power_of_ten(Len(fraction))
    IN  IF Head(text) = "-" THEN 0 - quarters ELSE quarters

\* jpw = [float(line.strip()) for line in f.readlines()]
jpw_raises(file) == \E i \in 1..Len(file) : float_raises(strip(file[i]))

jpw_floats(file) == [i \in 1..Len(file) |-> float_of(strip(file[i]))]

Raise(exc) == [kind |-> "raise", exc |-> exc]
Return(value) == [kind |-> "return", value |-> value]

parse_jpw(file) ==
    LET jpw == jpw_floats(file)
    IN  IF jpw_raises(file) THEN Raise(ValueError)
        ELSE IF Len(jpw) < 6 THEN Raise(IndexError)
        ELSE Return(<<jpw[1], jpw[2], jpw[3], jpw[4], jpw[5], jpw[6]>>)

----------------------------------------------------------------------------
(* Inputs *)

\* The world file of the specification's examples:
\* 0.25, 0, 0, -0.25, 400000, 300000.
ExampleFile ==
    << <<"0", ".", "2", "5", "\n">>,
       <<"0", "\n">>,
       <<"0", "\n">>,
       <<"-", "0", ".", "2", "5", "\n">>,
       <<"4", "0", "0", "0", "0", "0", "\n">>,
       <<"3", "0", "0", "0", "0", "0", "\n">> >>

ExampleParams == <<1, 0, 0, -1, 1600000, 1200000>>

LineChoices ==
    { <<"0", ".", "2", "5", "\n">>,
      <<" ", "-", "2", " ", "\n">>,
      <<"a", "b", "c", "\n">>,
      <<"\n">> }

JpwFiles ==
    {ExampleFile} \cup UNION { [1..n -> LineChoices] : n \in 0..MaxLines }

Pixels == ((0..MaxCoord) \X (0..MaxCoord)) \cup {<<100, 100>>}

Centers == {None} \cup ((0..MaxCoord) \X (0..MaxCoord))

Extents == {None} \cup {Some(n) : n \in 0..MaxExtent}

Angles == {90 * k : k \in (0 - MaxTurns)..MaxTurns}

ParamChoices ==
    { ExampleParams,
      <<1, 0, 0, 1, 0, 0>>,
      <<2, 1, 3, -1, 5, 7>>,
      <<1, 2, 0, -3, 0, -4>> }

----------------------------------------------------------------------------
(* parse_xml_metadata *)

\* A metadata sidecar is missing, not well-formed XML, or a document, given by
\* the set of the elements it holds; the text of an element is not modelled.
XmlElements ==
    {"copyright", "kmReference", "dateFlown", "coordinates",
     "lensFocalLength", "resolution"}

MetadataKeys ==
    {"copyright", "km_reference", "date_flown", "coordinates",
     "lens_focal_length", "resolution"}

element_of(key) ==
    CASE key = "copyright"         -> "copyright"
      [] key = "km_reference"      -> "kmReference"
      [] key = "date_flown"        -> "dateFlown"
      [] key = "coordinates"       -> "coordinates"
      [] key = "lens_focal_length" -> "lensFocalLength"
      [] key = "resolution"        -> "resolution"

EmptyMapping == [key \in {} |-> "N/A"]

MissingXml == [kind |-> "missing", elements |-> {}]
MalformedXml == [kind |-> "malformed", elements |-> {}]
XmlDocument(elements) == [kind |-> "document", elements |-> elements]

parse_xml_metadata(xml) ==
    IF xml.kind = "missing" THEN EmptyMapping
    ELSE IF xml.kind = "malformed" THEN EmptyMapping
    ELSE [key \in MetadataKeys |->
             IF element_of(key) \in xml.elements THEN "text" ELSE "N/A"]

\* What parse_xml_metadata prints.
parse_xml_prints(image, xml) ==
    IF xml.kind = "malformed" THEN << <<"Error parsing", image>> >> ELSE <<>>

XmlChoices ==
    {MissingXml, MalformedXml, XmlDocument(XmlElements),
     XmlDocument(XmlElements \ {"resolution"})}

----------------------------------------------------------------------------
(* process_directory *)

\* The world files the images of a directory come with: none, the example,
\* one line short, one line long, one line not a number.
JpwChoices ==
    { None,
      Some(ExampleFile),
      Some(SubSeq(ExampleFile, 1, 5)),
      Some(Append(ExampleFile, <<"0", "\n">>)),
      Some([ExampleFile EXCEPT ![3] = <<"a", "b", "c", "\n">>]) }

Regions ==
    << [name |-> "center", pixel_x |-> 500, pixel_y |-> 500],
       [name |-> "top_left", pixel_x |-> 0, pixel_y |-> 0],
       [name |-> "bottom_right", pixel_x |-> 1000, pixel_y |-> 1000] >>

\* Lines 204-212: one entry of georeferenced_data['regions'].
region_entry(region, params) ==
    LET geo == pixel_to_geo_with_transform(region.pixel_x, region.pixel_y, params,
                                           None, None, None, 0)
    IN  [name |-> region.name,
         pixel |-> <<region.pixel_x, region.pixel_y>>,
         geo |-> geo]

\* Lines 190-195: the lines printed for the regions.
region_prints(image, params) ==
    [r \in 1..Len(Regions) |->
        <<"Image", image, Regions[r].name,
          pixel_to_geo_with_transform(Regions[r].pixel_x, Regions[r].pixel_y, params,
                                      None, None, None, 0)>>]

\* Lines 198-215: the document written for one image.
georeferenced_data(image, params, metadata) ==
    LET regions == [r \in 1..Len(Regions) |-> region_entry(Regions[r], params)]
    IN  IF DOMAIN metadata # {}
        THEN [image |-> image, jpw_file |-> image, regions |-> regions,
              metadata |-> metadata]
        ELSE [image |-> image, jpw_file |-> image, regions |-> regions]

\* The orders in which glob.glob may list the images.
Orderings(S) ==
    {f \in [1..Cardinality(S) -> S] : \A i, j \in 1..Cardinality(S) : f[i] = f[j] => i = j}

Idle == "idle"

----------------------------------------------------------------------------
(* Function calls: the arguments are drawn at the start, an action is one  *)
(* call.                                                                   *)

DirIdle ==
    /\ directory = <<>>
    /\ jpeg_files = <<>>
    /\ idx = 0
    /\ outputs = <<>>
    /\ stdout = <<>>
    /\ pc = Idle

Init ==
    /\ \E p \in Pixels : pixel_x = p[1] /\ pixel_y = p[2]
    /\ jpw_params \in ParamChoices
    /\ center \in Centers
    /\ height \in Extents
    /\ width \in Extents
    /\ rotation_angle \in Angles
    /\ jpw_file = <<>>
    /\ call = "none"
    /\ ret = None
    /\ translated = None
    /\ lat_lon = None
    /\ first = None
    /\ DirIdle

Arguments ==
    [pixel_x |-> pixel_x, pixel_y |-> pixel_y, center |-> center, height |-> height,
     width |-> width, rotation_angle |-> rotation_angle]

Call_pixel_to_geo ==
    /\ call = "none"
    /\ call' = "pixel_to_geo"
    /\ ret' = pixel_to_geo(pixel_x, pixel_y, jpw_params)
    /\ UNCHANGED <<pixel_x, pixel_y, jpw_params, center, height, width,
                   rotation_angle, jpw_file, translated, lat_lon, first>>
    /\ UNCHANGED dirVars

Call_pixel_to_geo_with_transform ==
    /\ call = "none"
    /\ call' = "pixel_to_geo_with_transform"
    /\ ret' = pixel_to_geo_with_transform(pixel_x, pixel_y, jpw_params, center,
                                          height, width, rotation_angle)
    /\ translated' = locals_translated(pixel_x, pixel_y, center, height, width,
                                       rotation_angle)
    /\ lat_lon' = locals_lat_lon(pixel_x, pixel_y, jpw_params, center, height,
                                 width, rotation_angle)
    /\ UNCHANGED <<pixel_x, pixel_y, jpw_params, center, height, width,
                   rotation_angle, jpw_file, first>>
    /\ UNCHANGED dirVars

\* The grid coordinate a transform returned is converted to latitude/longitude.
Call_bng_to_latlon ==
    /\ call \in {"pixel_to_geo", "pixel_to_geo_with_transform"}
    /\ first = None
    /\ first' = Some([call |-> call, args |-> Arguments, ret |-> ret,
                      translated |-> translated])
    /\ call' = "bng_to_latlon"
    /\ ret' = bng_to_latlon(ret[1], ret[2])
    /\ UNCHANGED <<pixel_x, pixel_y, jpw_params, center, height, width,
                   rotation_angle, jpw_file, translated, lat_lon>>
    /\ UNCHANGED dirVars

\* A second call of pixel_to_geo_with_transform, on the arguments given.
SecondCall(px, py, c, h, w, angle) ==
    /\ call = "pixel_to_geo_with_transform"
    /\ first = None
    /\ first' = Some([call |-> call, args |-> Arguments, ret |-> ret,
                      translated |-> translated])
    /\ pixel_x' = px
    /\ pixel_y' = py
    /\ center' = c
    /\ height' = h
    /\ width' = w
    /\ rotation_angle' = angle
    /\ call' = "pixel_to_geo_with_transform"
    /\ ret' = pixel_to_geo_with_transform(px, py, jpw_params, c, h, w, angle)
    /\ translated' = locals_translated(px, py, c, h, w, angle)
    /\ lat_lon' = locals_lat_lon(px, py, jpw_params, c, h, w, angle)
    /\ UNCHANGED <<jpw_params, jpw_file>>
    /\ UNCHANGED dirVars

\* The rotated pixel is rotated back: same center, opposite angle.
Call_rotate_back ==
    /\ translated # None
    /\ SecondCall(translated[1], translated[2], center, height, width,
                  0 - rotation_angle)

\* The same pixel, center and angle with another extent.
Call_other_extent ==
    /\ height # None
    /\ \E h \in Extents \ {None}, w \in Extents :
          /\ <<h, w>> # <<height, width>>
          /\ SecondCall(pixel_x, pixel_y, center, h, w, rotation_angle)

Next ==
    \/ Call_pixel_to_geo
    \/ Call_pixel_to_geo_with_transform
    \/ Call_bng_to_latlon
    \/ Call_rotate_back
    \/ Call_other_extent

Spec == Init /\ [][Next]_vars

----------------------------------------------------------------------------
(* parse_jpw on a world file drawn at the start.                           *)

InitParse ==
    /\ jpw_file \in JpwFiles
    /\ pixel_x = 0
    /\ pixel_y = 0
    /\ jpw_params = ExampleParams
    /\ center = None
    /\ height = None
    /\ width = None
    /\ rotation_angle = 0
    /\ call = "none"
    /\ ret = None
    /\ translated = None
    /\ lat_lon = None
    /\ first = None
    /\ DirIdle

Call_parse_jpw ==
    /\ call = "none"
    /\ pc = Idle
    /\ jpw_file \in JpwFiles
    /\ call' = "parse_jpw"
    /\ ret' = parse_jpw(jpw_file)
    /\ UNCHANGED <<pixel_x, pixel_y, jpw_params, center, height, width,
                   rotation_angle, jpw_file, translated, lat_lon, first>>
    /\ UNCHANGED dirVars

NextParse == Call_parse_jpw

SpecParse == InitParse /\ [][NextParse]_vars

----------------------------------------------------------------------------
(* process_directory on a directory drawn at the start; an action is one   *)
(* iteration of the loop over the images.                                  *)

ImageFiles == [jpw : JpwChoices, xml : XmlChoices]

InitDir ==
    /\ \E n \in 0..MaxImages :
          /\ directory \in [1..n -> ImageFiles]
          /\ jpeg_files \in Orderings(1..n)
    /\ idx = 1
    /\ outputs = <<>>
    /\ stdout = <<>>
    /\ pc = "loop"
    /\ pixel_x = 0
    /\ pixel_y = 0
    /\ jpw_params = ExampleParams
    /\ center = None
    /\ height = None
    /\ width = None
    /\ rotation_angle = 0
    /\ jpw_file = <<>>
    /\ call = "process_directory"
    /\ ret = None
    /\ translated = None
    /\ lat_lon = None
    /\ first = None

InLoop == pc = "loop" /\ idx <= Len(jpeg_files)

\* Lines 172-174: the image has no world file.
SkipImage ==
    /\ InLoop
    /\ LET image == jpeg_files[idx]
       IN  /\ directory[image].jpw = None
           /\ stdout' = Append(stdout, <<"Skipping", image>>)
    /\ idx' = idx + 1
    /\ UNCHANGED <<directory, jpeg_files, outputs, pc>>
    /\ UNCHANGED callVars

\* Lines 177-220: the world file parses and the image's document is written.
ProcessImage ==
    /\ InLoop
    /\ LET image    == jpeg_files[idx]
           files    == directory[image]
           parsed   == parse_jpw(files.jpw[1])
           metadata == parse_xml_metadata(files.xml)
           data     == georeferenced_data(image, parsed.value, metadata)
       IN  /\ files.jpw # None
           /\ parsed.kind = "return"
           /\ outputs' = [i \in DOMAIN outputs \cup {image} |->
                             IF i = image THEN data ELSE outputs[i]]
           /\ stdout' = stdout \o parse_xml_prints(image, files.xml)
                               \o region_prints(image, parsed.value)
                               \o << <<"Georeferenced data saved", image>> >>
    /\ idx' = idx + 1
    /\ UNCHANGED <<directory, jpeg_files, pc>>
    /\ UNCHANGED callVars

\* Line 177: parse_jpw raises; nothing catches it, process_directory ends.
ImageRaises ==
    /\ InLoop
    /\ LET image  == jpeg_files[idx]
           files  == directory[image]
           parsed == parse_jpw(files.jpw[1])
       IN  /\ files.jpw # None
           /\ parsed.kind = "raise"
           /\ ret' = parsed
    /\ pc' = "raised"
    /\ UNCHANGED <<directory, jpeg_files, idx, outputs, stdout>>
    /\ UNCHANGED <<pixel_x, pixel_y, jpw_params, center, height, width,
                   rotation_angle, jpw_file, call, translated, lat_lon, first>>

\* The list is exhausted.
ReturnFromLoop ==
    /\ pc = "loop"
    /\ idx > Len(jpeg_files)
    /\ pc' = "returned"
    /\ ret' = Return(None)
    /\ UNCHANGED <<directory, jpeg_files, idx, outputs, stdout>>
    /\ UNCHANGED <<pixel_x, pixel_y, jpw_params, center, height, width,
                   rotation_angle, jpw_file, call, translated, lat_lon, first>>

NextDir ==
    \/ SkipImage
    \/ ProcessImage
    \/ ImageRaises
    \/ ReturnFromLoop

SpecDir == InitDir /\ [][NextDir]_vars

----------------------------------------------------------------------------
(* Properties *)

Pixel == <<pixel_x, pixel_y>>

Rotating == call = "pixel_to_geo_with_transform" /\ center # None /\ height # None

\* The call before the last one, when the last one is a second call of
\* pixel_to_geo_with_transform.
Before == first[1]

SecondTransform ==
    /\ call = "pixel_to_geo_with_transform"
    /\ first # None
    /\ Before.call = "pixel_to_geo_with_transform"

\* C1: pixel_to_geo returns (px*psx + py*rotx + ox, py*psy + px*roty + oy);
\* with the parameters 0.25, 0, 0, -0.25, 400000, 300000 pixel (0,0) gives
\* (400000, 300000) and pixel (100,100) gives (400025, 299975), here in
\* quarter units.
C1_AffineFormula ==
    call = "pixel_to_geo" =>
        /\ ret = << pixel_x * jpw_params[1] + pixel_y * jpw_params[2] + jpw_params[5],
                    pixel_y * jpw_params[4] + pixel_x * jpw_params[3] + jpw_params[6] >>
        /\ (jpw_params = ExampleParams /\ Pixel = <<0, 0>>)
              => ret = <<4 * 400000, 4 * 300000>>
        /\ (jpw_params = ExampleParams /\ Pixel = <<100, 100>>)
              => ret = <<4 * 400025, 4 * 299975>>

C1_Witness ==
    /\ call = "pixel_to_geo"
    /\ jpw_params = ExampleParams
    /\ Pixel = <<100, 100>>
    /\ ret = <<1600100, 1199900>>

\* C2: parse_jpw returns a parameter tuple only for a world file of exactly
\* six numeric lines, and ends in an error for every other file (fewer than
\* six lines, more than six lines, or a line that is not a number).
C2_ErrorUnlessSixNumericLines ==
    call = "parse_jpw" =>
        (ret.kind = "return" <=> (Len(jpw_file) = 6 /\ ~ jpw_raises(jpw_file)))

\* C3: when a center and an extent are supplied, the latitude/longitude that
\* pixel_to_geo_with_transform computes is part of what it returns.
C3_LatLonReturned ==
    (call = "pixel_to_geo_with_transform" /\ lat_lon # None) =>
        /\ Len(ret) > 2
        /\ \E i \in 3..Len(ret) :
              \/ ret[i] = lat_lon
              \/ i < Len(ret) /\ <<ret[i], ret[i + 1]>> = lat_lon

\* C4: when center is absent or height is absent, pixel_to_geo_with_transform
\* returns what pixel_to_geo returns on the same pixel and parameters,
\* whatever the angle and the width.
C4_SinglePixelIsPixelToGeo ==
    (call = "pixel_to_geo_with_transform" /\ (center = None \/ height = None)) =>
        ret = pixel_to_geo(pixel_x, pixel_y, jpw_params)

C4_Witness ==
    /\ call = "pixel_to_geo_with_transform"
    /\ center # None
    /\ height = None
    /\ width # None
    /\ rotation_angle = 90
    /\ Pixel # center
    /\ ret = pixel_to_geo(pixel_x, pixel_y, jpw_params)

\* C5: with rotation_angle = 0 the rotated pixel is the input pixel, and the
\* result is pixel_to_geo of the input pixel.
C5_RotationByZeroIsIdentity ==
    (Rotating /\ rotation_angle = 0) =>
        /\ translated = Pixel
        /\ ret = pixel_to_geo(pixel_x, pixel_y, jpw_params)

C5_Witness ==
    /\ Rotating
    /\ rotation_angle = 0
    /\ center # <<0, 0>>
    /\ Pixel # center
    /\ translated = Pixel

C7_LatitudeFirst ==
    /\ call = "bng_to_latlon" =>
          LET t == transformer_transform(Before.ret[1], Before.ret[2])
          IN  /\ ret = <<t[2], t[1]>>
              /\ ret[1].axis = "lat"
              /\ ret[2].axis = "lon"
    /\ (call = "pixel_to_geo_with_transform" /\ lat_lon # None) =>
          /\ lat_lon[1] = [axis |-> "lat", of |-> ret]
          /\ lat_lon[2] = [axis |-> "lon", of |-> ret]

C7_Witness ==
    /\ call = "bng_to_latlon"
    /\ Before.ret = <<1600100, 1199900>>
    /\ ret[1] = [axis |-> "lat", of |-> <<1600100, 1199900>>]

\* C8: when process_directory has ended, every image of the directory whose
\* world file is valid has its output document, whatever happened to the
\* other images and whatever the order of enumeration.
HasValidWorldFile(image) ==
    /\ directory[image].jpw # None
    /\ Len(directory[image].jpw[1]) = 6
    /\ ~ jpw_raises(directory[image].jpw[1])

C8_FailureAbortsOnlyThatImage ==
    pc \in {"returned", "raised"} =>
        \A image \in DOMAIN directory :
            HasValidWorldFile(image) => image \in DOMAIN outputs

\* C9: rotation_angle = 90 moves a pixel at offset (dx, dy) from the center
\* to offset (-dy, dx): with x to the right and y downward, clockwise.  The
\* result is the affine mapping of the moved pixel.
C9_PositiveAngleIsClockwise ==
    (Rotating /\ rotation_angle = 90) =>
        /\ translated[1] - center[1] = 0 - (pixel_y - center[2])
        /\ translated[2] - center[2] = pixel_x - center[1]
        /\ ret = pixel_to_geo(translated[1], translated[2], jpw_params)

\* The pixel one unit right of the center has moved to one unit below it.
C9_Witness ==
    /\ Rotating
    /\ first = None
    /\ rotation_angle = 90
    /\ Pixel = <<center[1] + 1, center[2]>>
    /\ translated = <<center[1], center[2] + 1>>

\* C10: two calls of pixel_to_geo_with_transform on the same pixel,
\* parameters, center and angle that both supply a height return the same
\* result, whatever the heights and widths.
C10_ExtentIgnored ==
    ( /\ SecondTransform
      /\ Rotating
      /\ Before.args.height # None
      /\ Before.args.center = center
      /\ Before.args.pixel_x = pixel_x
      /\ Before.args.pixel_y = pixel_y
      /\ Before.args.rotation_angle = rotation_angle ) =>
        ret = Before.ret

C10_Witness ==
    /\ SecondTransform
    /\ Rotating
    /\ Before.args.center = center
    /\ Before.args.pixel_x = pixel_x
    /\ Before.args.pixel_y = pixel_y
    /\ Before.args.rotation_angle = rotation_angle
    /\ rotation_angle = 90
    /\ Pixel # center
    /\ Before.args.height = Some(1)
    /\ height = Some(0)
    /\ Before.args.width # width
    /\ ret = Before.ret

====
